---- MODULE Spec2Model ----
(***************************************************************************)
(* A model of element_framework.py: the element table, the impedance and   *)
(* frequency calculators, the affinity scorer, the classifier, the element *)
(* analyzer and the compound analyzer.                                     *)
(*                                                                         *)
(* Number representation.  The program computes in binary floating point;  *)
(* the model computes in fixed point:                                      *)
(*   - table data keep their decimal digits as integers: ionization energy *)
(*     in 1/1000 eV, atomic mass in 1/1000 amu, electronegativity in 1/100,*)
(*     radius in pm;                                                       *)
(*   - derived dimensionless reals (impedance, its log, match score R,     *)
(*     affinity) are integers in units of 1/Scale;                         *)
(*   - frequencies are integers in GHz.                                    *)
(* sqrt, log, exp and the cube root are computed by integer algorithms to  *)
(* that resolution, so numeric results agree with the program's to about   *)
(* 1/Scale, not bit for bit.                                               *)
(***************************************************************************)
EXTENDS Integers, Sequences, FiniteSets, TLC

\* Resolution of the fixed-point reals: a real x is the integer x * Scale.
Scale == 1000
\* Longest symbol list handed to predict_compound_frequency.
MaxLen == 3
\* Largest atomic number handed to classify_element.
MaxAtomicNumber == 118

(***************************************************************************)
(* Arithmetic of the numeric library calls                                 *)
(***************************************************************************)

RECURSIVE SqrtSearch(_, _, _)
\* The largest r in lo..hi with r*r <= n (bisection); hi*hi must not overflow.
SqrtSearch(n, lo, hi) ==
    IF lo >= hi THEN lo
    ELSE LET mid == (lo + hi + 1) \div 2
         IN  IF mid * mid <= n THEN SqrtSearch(n, mid, hi)
             ELSE SqrtSearch(n, lo, mid - 1)

\* Integer square root of n >= 0.
ISqrt(n) == SqrtSearch(n, 0, 46340)

RECURSIVE CbrtSearch(_, _, _)
\* The largest r in lo..hi with r*r*r <= n.
CbrtSearch(n, lo, hi) ==
    IF lo >= hi THEN lo
    ELSE LET mid == (lo + hi + 1) \div 2
         IN  IF mid * mid * mid <= n THEN CbrtSearch(n, mid, hi)
             ELSE CbrtSearch(n, lo, mid - 1)

\* Integer cube root of n >= 0.
ICbrt(n) == CbrtSearch(n, 0, 1290)

\* 100 times the cube root of n > 0: the integer root, then one linear
\* correction (n - c^3) / (3 c^2).
Cbrt100(n) ==
    LET c == ICbrt(n)
    IN  100 * c + ((n - c * c * c) * 100) \div (3 * c * c)

\* a / b rounded to the nearest integer, for a >= 0 and b > 0.
RDiv(a, b) == (2 * a + b) \div (2 * b)

\* The series of log and exp are summed at ten times the resolution of the
\* results and rounded once at the end.
Fine == 10 * Scale

RECURSIVE Halvings(_)
\* How many times x (at resolution Fine, x >= 1) is halved to fall below 2.
Halvings(x) == IF x < 2 * Fine THEN 0 ELSE 1 + Halvings(x \div 2)

RECURSIVE Pow2(_)
Pow2(k) == IF k = 0 THEN 1 ELSE 2 * Pow2(k - 1)

RECURSIVE AtanhTerms(_, _, _, _)
\* t + t^3/3 + t^5/5 + ... from the term pow/n on, while the power is non-zero.
AtanhTerms(pow, t2, n, acc) ==
    IF pow = 0 THEN acc
    ELSE AtanhTerms(RDiv(pow * t2, Fine), t2, n + 2, acc + RDiv(pow, n))

\* ln m for m in [1, 2] at resolution Fine: 2 atanh((m-1)/(m+1)).
LnMantissa(m) ==
    LET t == RDiv((m - Fine) * Fine, m + Fine)
    IN  2 * AtanhTerms(t, RDiv(t * t, Fine), 1, 0)

\* ln 2 at resolution Fine.
Ln2 == LnMantissa(2 * Fine)

\* ln x at resolution Fine for x >= 1 at resolution Fine: k ln 2 + ln(x / 2^k).
LnFine(x) ==
    LET k == Halvings(x)
    IN  k * Ln2 + LnMantissa(RDiv(x, Pow2(k)))

\* np.log of a fixed-point real x >= 1.
Ln(x) == RDiv(LnFine(10 * x), 10)

\* np.log10 of a fixed-point real x >= 1.
Log10(x) == RDiv(LnFine(10 * x) * Scale, LnFine(10 * Fine))

RECURSIVE ExpTerms(_, _, _, _)
\* 1 + r + r^2/2! + ... from the term `term` = r^n/n! on, while it is non-zero.
ExpTerms(term, r, n, acc) ==
    IF term = 0 THEN acc
    ELSE ExpTerms(RDiv(term * r, Fine * (n + 1)), r, n + 1, acc + term)

\* np.exp(-y) for a fixed-point real y >= 0: 2^-k / exp(r), y = k ln 2 + r.
ExpNeg(y) ==
    LET k == (10 * y) \div Ln2
        r == 10 * y - k * Ln2
    IN  IF k > 24 THEN 0
        ELSE RDiv(RDiv(Fine * Fine, ExpTerms(Fine, r, 0, 0)), 10 * Pow2(k))

\* Python's round() of a fixed-point real x >= 0, as an integer: to the
\* nearest integer, a tie going to the even one.
Round(x) ==
    LET q == x \div Scale
        f == x - q * Scale
    IN  IF 2 * f < Scale THEN q
        ELSE IF 2 * f > Scale THEN q + 1
        ELSE IF q % 2 = 0 THEN q ELSE q + 1

Abs(x) == IF x < 0 THEN -x ELSE x

\* np.exp(y) for a fixed-point real y >= 0: 2^k exp(r), y = k ln 2 + r.
ExpPos(y) ==
    LET k == (10 * y) \div Ln2
        r == 10 * y - k * Ln2
    IN  RDiv(ExpTerms(Fine, r, 0, 0) * Pow2(k), 10)

\* np.mean of a non-empty sequence of non-negative numbers.
RECURSIVE SeqSum(_)
SeqSum(s) == IF s = <<>> THEN 0 ELSE Head(s) + SeqSum(Tail(s))

Mean(s) == RDiv(SeqSum(s), Len(s))

(***************************************************************************)
(* Floating-point values that are not finite numbers.  A float is a record *)
(* [k, v]: k is "fin" (v its fixed-point value), "inf", "-inf" or "nan".   *)
(***************************************************************************)
Fin(v) == [k |-> "fin", v |-> v]
Inf == [k |-> "inf", v |-> 0]
NegInf == [k |-> "-inf", v |-> 0]
NaN == [k |-> "nan", v |-> 0]

\* np.log of a float: nan below zero, -inf at zero, both with a warning only.
NpLog(f) ==
    IF f.k = "nan" \/ f.k = "-inf" THEN NaN
    ELSE IF f.k = "inf" THEN Inf
    ELSE IF f.v < 0 THEN NaN
    ELSE IF f.v = 0 THEN NegInf
    ELSE IF f.v < Scale THEN Fin(-Ln(RDiv(Scale * Scale, f.v)))
    ELSE Fin(Ln(f.v))

(***************************************************************************)
(* Module constants and tables                                             *)
(***************************************************************************)

\* Planck constant in units of 1e-19 eV s (the source's 4.135667e-15 to five
\* digits).
H_PLANCK_EV == 41357

\* An Optional value is a sequence: <<>> is None, <<v>> is the value v.
\* Units: atomic_mass 1/1000 amu, ionization_energy 1/1000 eV,
\* electronegativity 1/100, atomic_radius pm.
ELEMENT_DATA_0 ==
    "H" :> [atomic_number |-> 1, atomic_mass |-> 1008, ionization_energy |-> 13598,
            electronegativity |-> <<220>>, atomic_radius |-> 53, electron_config |-> "1s1"] @@
    "He" :> [atomic_number |-> 2, atomic_mass |-> 4003, ionization_energy |-> 24587,
            electronegativity |-> <<>>, atomic_radius |-> 31, electron_config |-> "1s2"] @@
    "Li" :> [atomic_number |-> 3, atomic_mass |-> 6941, ionization_energy |-> 5392,
            electronegativity |-> <<98>>, atomic_radius |-> 167, electron_config |-> "[He]2s1"] @@
    "Be" :> [atomic_number |-> 4, atomic_mass |-> 9012, ionization_energy |-> 9323,
            electronegativity |-> <<157>>, atomic_radius |-> 112, electron_config |-> "[He]2s2"] @@
    "B" :> [atomic_number |-> 5, atomic_mass |-> 10810, ionization_energy |-> 8298,
            electronegativity |-> <<204>>, atomic_radius |-> 87, electron_config |-> "[He]2s2 2p1"] @@
    "C" :> [atomic_number |-> 6, atomic_mass |-> 12010, ionization_energy |-> 11260,
            electronegativity |-> <<255>>, atomic_radius |-> 77, electron_config |-> "[He]2s2 2p2"] @@
    "N" :> [atomic_number |-> 7, atomic_mass |-> 14010, ionization_energy |-> 14534,
            electronegativity |-> <<304>>, atomic_radius |-> 75, electron_config |-> "[He]2s2 2p3"] @@
    "O" :> [atomic_number |-> 8, atomic_mass |-> 16000, ionization_energy |-> 13618,
            electronegativity |-> <<344>>, atomic_radius |-> 73, electron_config |-> "[He]2s2 2p4"] @@
    "F" :> [atomic_number |-> 9, atomic_mass |-> 19000, ionization_energy |-> 17423,
            electronegativity |-> <<398>>, atomic_radius |-> 71, electron_config |-> "[He]2s2 2p5"] @@
    "Ne" :> [atomic_number |-> 10, atomic_mass |-> 20180, ionization_energy |-> 21565,
            electronegativity |-> <<>>, atomic_radius |-> 69, electron_config |-> "[He]2s2 2p6"] @@
    "Na" :> [atomic_number |-> 11, atomic_mass |-> 22990, ionization_energy |-> 5139,
            electronegativity |-> <<93>>, atomic_radius |-> 190, electron_config |-> "[Ne]3s1"] @@
    "Mg" :> [atomic_number |-> 12, atomic_mass |-> 24310, ionization_energy |-> 7646,
            electronegativity |-> <<131>>, atomic_radius |-> 160, electron_config |-> "[Ne]3s2"] @@
    "Al" :> [atomic_number |-> 13, atomic_mass |-> 26980, ionization_energy |-> 5986,
            electronegativity |-> <<161>>, atomic_radius |-> 143, electron_config |-> "[Ne]3s2 3p1"] @@
    "Si" :> [atomic_number |-> 14, atomic_mass |-> 28090, ionization_energy |-> 8152,
            electronegativity |-> <<190>>, atomic_radius |-> 118, electron_config |-> "[Ne]3s2 3p2"] @@
    "P" :> [atomic_number |-> 15, atomic_mass |-> 30970, ionization_energy |-> 10487,
            electronegativity |-> <<219>>, atomic_radius |-> 110, electron_config |-> "[Ne]3s2 3p3"] @@
    "S" :> [atomic_number |-> 16, atomic_mass |-> 32070, ionization_energy |-> 10360,
            electronegativity |-> <<258>>, atomic_radius |-> 103, electron_config |-> "[Ne]3s2 3p4"] @@
    "Cl" :> [atomic_number |-> 17, atomic_mass |-> 35450, ionization_energy |-> 12968,
            electronegativity |-> <<316>>, atomic_radius |-> 99, electron_config |-> "[Ne]3s2 3p5"] @@
    "Ar" :> [atomic_number |-> 18, atomic_mass |-> 39950, ionization_energy |-> 15760,
            electronegativity |-> <<>>, atomic_radius |-> 97, electron_config |-> "[Ne]3s2 3p6"] @@
    "K" :> [atomic_number |-> 19, atomic_mass |-> 39100, ionization_energy |-> 4341,
            electronegativity |-> <<82>>, atomic_radius |-> 243, electron_config |-> "[Ar]4s1"] @@
    "Ca" :> [atomic_number |-> 20, atomic_mass |-> 40080, ionization_energy |-> 6113,
            electronegativity |-> <<100>>, atomic_radius |-> 194, electron_config |-> "[Ar]4s2"] @@
    "Sc" :> [atomic_number |-> 21, atomic_mass |-> 44960, ionization_energy |-> 6561,
            electronegativity |-> <<136>>, atomic_radius |-> 184, electron_config |-> "[Ar]3d1 4s2"] @@
    "Ti" :> [atomic_number |-> 22, atomic_mass |-> 47870, ionization_energy |-> 6828,
            electronegativity |-> <<154>>, atomic_radius |-> 176, electron_config |-> "[Ar]3d2 4s2"] @@
    "V" :> [atomic_number |-> 23, atomic_mass |-> 50940, ionization_energy |-> 6746,
            electronegativity |-> <<163>>, atomic_radius |-> 171, electron_config |-> "[Ar]3d3 4s2"] @@
    "Cr" :> [atomic_number |-> 24, atomic_mass |-> 52000, ionization_energy |-> 6767,
            electronegativity |-> <<166>>, atomic_radius |-> 166, electron_config |-> "[Ar]3d5 4s1"] @@
    "Mn" :> [atomic_number |-> 25, atomic_mass |-> 54940, ionization_energy |-> 7434,
            electronegativity |-> <<155>>, atomic_radius |-> 161, electron_config |-> "[Ar]3d5 4s2"] @@
    "Fe" :> [atomic_number |-> 26, atomic_mass |-> 55850, ionization_energy |-> 7902,
            electronegativity |-> <<183>>, atomic_radius |-> 156, electron_config |-> "[Ar]3d6 4s2"] @@
    "Co" :> [atomic_number |-> 27, atomic_mass |-> 58930, ionization_energy |-> 7881,
            electronegativity |-> <<188>>, atomic_radius |-> 152, electron_config |-> "[Ar]3d7 4s2"] @@
    "Ni" :> [atomic_number |-> 28, atomic_mass |-> 58690, ionization_energy |-> 7640,
            electronegativity |-> <<191>>, atomic_radius |-> 149, electron_config |-> "[Ar]3d8 4s2"] @@
    "Cu" :> [atomic_number |-> 29, atomic_mass |-> 63550, ionization_energy |-> 7726,
            electronegativity |-> <<190>>, atomic_radius |-> 145, electron_config |-> "[Ar]3d10 4s1"] @@
    "Zn" :> [atomic_number |-> 30, atomic_mass |-> 65380, ionization_energy |-> 9394,
            electronegativity |-> <<165>>, atomic_radius |-> 142, electron_config |-> "[Ar]3d10 4s2"] @@
    "Ga" :> [atomic_number |-> 31, atomic_mass |-> 69720, ionization_energy |-> 5999,
            electronegativity |-> <<181>>, atomic_radius |-> 136, electron_config |-> "[Ar]3d10 4s2 4p1"] @@
    "Ge" :> [atomic_number |-> 32, atomic_mass |-> 72630, ionization_energy |-> 7900,
            electronegativity |-> <<201>>, atomic_radius |-> 125, electron_config |-> "[Ar]3d10 4s2 4p2"] @@
    "As" :> [atomic_number |-> 33, atomic_mass |-> 74920, ionization_energy |-> 9815,
            electronegativity |-> <<218>>, atomic_radius |-> 114, electron_config |-> "[Ar]3d10 4s2 4p3"] @@
    "Se" :> [atomic_number |-> 34, atomic_mass |-> 78970, ionization_energy |-> 9752,
            electronegativity |-> <<255>>, atomic_radius |-> 103, electron_config |-> "[Ar]3d10 4s2 4p4"] @@
    "Br" :> [atomic_number |-> 35, atomic_mass |-> 79900, ionization_energy |-> 11814,
            electronegativity |-> <<296>>, atomic_radius |-> 94, electron_config |-> "[Ar]3d10 4s2 4p5"] @@
    "Kr" :> [atomic_number |-> 36, atomic_mass |-> 83800, ionization_energy |-> 14000,
            electronegativity |-> <<>>, atomic_radius |-> 88, electron_config |-> "[Ar]3d10 4s2 4p6"] @@
    "Rb" :> [atomic_number |-> 37, atomic_mass |-> 85470, ionization_energy |-> 4177,
            electronegativity |-> <<82>>, atomic_radius |-> 265, electron_config |-> "[Kr]5s1"] @@
    "Sr" :> [atomic_number |-> 38, atomic_mass |-> 87620, ionization_energy |-> 5695,
            electronegativity |-> <<95>>, atomic_radius |-> 219, electron_config |-> "[Kr]5s2"] @@
    "Ag" :> [atomic_number |-> 47, atomic_mass |-> 107870, ionization_energy |-> 7576,
            electronegativity |-> <<193>>, atomic_radius |-> 165, electron_config |-> "[Kr]4d10 5s1"] @@
    "Sn" :> [atomic_number |-> 50, atomic_mass |-> 118710, ionization_energy |-> 7344,
            electronegativity |-> <<196>>, atomic_radius |-> 145, electron_config |-> "[Kr]4d10 5s2 5p2"] @@
    "I" :> [atomic_number |-> 53, atomic_mass |-> 126900, ionization_energy |-> 10451,
            electronegativity |-> <<266>>, atomic_radius |-> 133, electron_config |-> "[Kr]4d10 5s2 5p5"] @@
    "Cs" :> [atomic_number |-> 55, atomic_mass |-> 132910, ionization_energy |-> 3894,
            electronegativity |-> <<79>>, atomic_radius |-> 298, electron_config |-> "[Xe]6s1"] @@
    "Ba" :> [atomic_number |-> 56, atomic_mass |-> 137330, ionization_energy |-> 5212,
            electronegativity |-> <<89>>, atomic_radius |-> 253, electron_config |-> "[Xe]6s2"] @@
    "Au" :> [atomic_number |-> 79, atomic_mass |-> 196970, ionization_energy |-> 9226,
            electronegativity |-> <<254>>, atomic_radius |-> 174, electron_config |-> "[Xe]4f14 5d10 6s1"] @@
    "Hg" :> [atomic_number |-> 80, atomic_mass |-> 200590, ionization_energy |-> 10438,
            electronegativity |-> <<200>>, atomic_radius |-> 171, electron_config |-> "[Xe]4f14 5d10 6s2"] @@
    "Pb" :> [atomic_number |-> 82, atomic_mass |-> 207200, ionization_energy |-> 7417,
            electronegativity |-> <<233>>, atomic_radius |-> 154, electron_config |-> "[Xe]4f14 5d10 6s2 6p2"] @@
    "U" :> [atomic_number |-> 92, atomic_mass |-> 238030, ionization_energy |-> 6194,
            electronegativity |-> <<138>>, atomic_radius |-> 196, electron_config |-> "[Rn]5f3 6d1 7s2"]

PLANETARY_METALS_0 ==
    "Au" :> [planet |-> "Sun", symbol |-> "U+2609", day |-> "Sunday",
            quality |-> "Perfection, illumination"] @@
    "Ag" :> [planet |-> "Moon", symbol |-> "U+263D", day |-> "Monday",
            quality |-> "Reflection, intuition"] @@
    "Hg" :> [planet |-> "Mercury", symbol |-> "U+263F", day |-> "Wednesday",
            quality |-> "Transformation, communication"] @@
    "Cu" :> [planet |-> "Venus", symbol |-> "U+2640", day |-> "Friday",
            quality |-> "Love, beauty, harmony"] @@
    "Fe" :> [planet |-> "Mars", symbol |-> "U+2642", day |-> "Tuesday",
            quality |-> "Strength, action, will"] @@
    "Sn" :> [planet |-> "Jupiter", symbol |-> "U+2643", day |-> "Thursday",
            quality |-> "Expansion, abundance"] @@
    "Pb" :> [planet |-> "Saturn", symbol |-> "U+2644", day |-> "Saturday",
            quality |-> "Structure, limitation, time"]

ELEMENT_NAMES_0 ==
    "H" :> "Hydrogen" @@ "He" :> "Helium" @@ "Li" :> "Lithium" @@ "Be" :> "Beryllium" @@
    "B" :> "Boron" @@ "C" :> "Carbon" @@ "N" :> "Nitrogen" @@ "O" :> "Oxygen" @@
    "F" :> "Fluorine" @@ "Ne" :> "Neon" @@ "Na" :> "Sodium" @@ "Mg" :> "Magnesium" @@
    "Al" :> "Aluminum" @@ "Si" :> "Silicon" @@ "P" :> "Phosphorus" @@ "S" :> "Sulfur" @@
    "Cl" :> "Chlorine" @@ "Ar" :> "Argon" @@ "K" :> "Potassium" @@ "Ca" :> "Calcium" @@
    "Sc" :> "Scandium" @@ "Ti" :> "Titanium" @@ "V" :> "Vanadium" @@ "Cr" :> "Chromium" @@
    "Mn" :> "Manganese" @@ "Fe" :> "Iron" @@ "Co" :> "Cobalt" @@ "Ni" :> "Nickel" @@
    "Cu" :> "Copper" @@ "Zn" :> "Zinc" @@ "Ga" :> "Gallium" @@ "Ge" :> "Germanium" @@
    "As" :> "Arsenic" @@ "Se" :> "Selenium" @@ "Br" :> "Bromine" @@ "Kr" :> "Krypton" @@
    "Rb" :> "Rubidium" @@ "Sr" :> "Strontium" @@ "Ag" :> "Silver" @@ "Sn" :> "Tin" @@
    "I" :> "Iodine" @@ "Cs" :> "Cesium" @@ "Ba" :> "Barium" @@ "Au" :> "Gold" @@
    "Hg" :> "Mercury" @@ "Pb" :> "Lead" @@ "U" :> "Uranium"

\* Python's None, as analyze_element returns it.
None == [type |-> "NoneType"]

VARIABLES
    ELEMENT_DATA,       \* the module's element table (a dict, so mutable)
    PLANETARY_METALS,   \* the planetary correspondences
    ELEMENT_NAMES,      \* the element names
    pc,                 \* "menu": no call in progress; "done": a call returned
    op,                 \* the function last called
    args,               \* its arguments
    result,             \* what it returned
    earlier             \* a call made before, kept by a caller with its result

vars == <<ELEMENT_DATA, PLANETARY_METALS, ELEMENT_NAMES, pc, op, args, result,
          earlier>>
tables == <<ELEMENT_DATA, PLANETARY_METALS, ELEMENT_NAMES>>

(***************************************************************************)
(* Impedance and frequency calculators                                     *)
(***************************************************************************)

\* Z and Z_log of the electronegativity-is-None branch.  r_angstrom is
\* radius_pm / 100.0; a Python float division by 0.0 raises.
ImpedanceNoble(ionization_ev, radius_pm) ==
    IF radius_pm = 0
    THEN [outcome |-> "ZeroDivisionError", Z |-> NaN, Z_log |-> NaN]
    ELSE LET Z == Fin((ionization_ev * Scale) \div (10 * radius_pm))
         IN  [outcome |-> "return", Z |-> Z,
              Z_log |-> NpLog(Fin(Z.v + Scale))]

\* Z of the standard branch: np.sqrt(E * chi) / r_angstrom.  np.sqrt of a
\* negative number is nan; a numpy float divided by 0.0 is inf, or nan for 0/0.
ImpedanceStandardZ(ionization_ev, chi, radius_pm) ==
    IF ionization_ev * chi < 0 THEN NaN
    ELSE IF radius_pm = 0
         THEN IF ionization_ev * chi = 0 THEN NaN ELSE Inf
    ELSE Fin((ISqrt(ionization_ev * chi * 10) * Scale) \div (10 * radius_pm))

calculate_atomic_impedance(ionization_ev, electronegativity, radius_pm) ==
    IF electronegativity = <<>>
    THEN ImpedanceNoble(ionization_ev, radius_pm)
    ELSE LET Z == ImpedanceStandardZ(ionization_ev, electronegativity[1], radius_pm)
         IN  [outcome |-> "return", Z |-> Z,
              Z_log |-> NpLog(IF Z.k = "fin" THEN Fin(Z.v + Scale) ELSE Z)]

\* E / H_PLANCK_EV in GHz, for E in 1/1000 eV.
PerPlanck(energy) == ((energy * 10000) \div H_PLANCK_EV) * 1000

\* 1e13 * mass ** (-1/3) in GHz, for a mass > 0 in 1/1000 amu.
AcousticFrequency(mass) == 100000000 \div Cbrt100(1000 * mass)

\* 0.0 ** (-1/3) raises; a negative float to a fractional power is a complex
\* number in Python 3.
calculate_frequencies(ionization_ev, atomic_mass_amu) ==
    LET f_quantum == PerPlanck(ionization_ev)
        bond_energy_est == (3 * ionization_ev) \div 10
        f_chemical == PerPlanck(bond_energy_est)
    IN  IF atomic_mass_amu = 0
        THEN [outcome |-> "ZeroDivisionError", f_quantum |-> f_quantum,
              f_acoustic |-> NaN, f_chemical |-> f_chemical]
        ELSE IF atomic_mass_amu < 0
        THEN [outcome |-> "return", f_quantum |-> f_quantum,
              f_acoustic |-> [k |-> "complex", v |-> 0], f_chemical |-> f_chemical]
        ELSE [outcome |-> "return", f_quantum |-> f_quantum,
              f_acoustic |-> Fin(AcousticFrequency(atomic_mass_amu)),
              f_chemical |-> f_chemical]

(***************************************************************************)
(* Affinity scorer                                                         *)
(***************************************************************************)

\* The consciousness frequency targets (Hz), in the dict's iteration order.
consciousness_freqs ==
    << <<"delta", 2>>, <<"theta", 6>>, <<"alpha", 10>>,
       <<"beta", 20>>, <<"gamma", 40>>, <<"high_gamma", 100>> >>

\* One band's affinity for an acoustic frequency in GHz (at least f_brain GHz):
\* the ratio is held in units of 1e9, so its log10 is 9 more than computed.
BandAffinity(f_acoustic, f_brain) ==
    LET ratio == (f_acoustic * Scale) \div f_brain
        log_ratio == Log10(ratio) + 9 * Scale
        nearest_octave == Round(log_ratio)
        deviation == Abs(log_ratio - nearest_octave * Scale)
    IN  ExpNeg(deviation * 5)

RECURSIVE BestBandLastOnTies(_, _, _)
\* The loop with a later band replacing the best so far on an equal affinity.
BestBandLastOnTies(f_acoustic, i, best) ==
    IF i > Len(consciousness_freqs) THEN best
    ELSE LET affinity == BandAffinity(f_acoustic, consciousness_freqs[i][2])
         IN  IF affinity >= best.best_affinity
             THEN BestBandLastOnTies(f_acoustic, i + 1,
                                     [best_match |-> consciousness_freqs[i][1],
                                      best_affinity |-> affinity])
             ELSE BestBandLastOnTies(f_acoustic, i + 1, best)

RECURSIVE BestBand(_, _, _)
\* The loop over the bands from index i on, best being the best so far.
BestBand(f_acoustic, i, best) ==
    IF i > Len(consciousness_freqs) THEN best
    ELSE LET affinity == BandAffinity(f_acoustic, consciousness_freqs[i][2])
         IN  IF affinity > best.best_affinity
             THEN BestBand(f_acoustic, i + 1,
                           [best_match |-> consciousness_freqs[i][1],
                            best_affinity |-> affinity])
             ELSE BestBand(f_acoustic, i + 1, best)

\* exp(-((impedance - optimal_impedance) / 2) ** 2), optimal_impedance = 3.0.
ImpedanceFactor(impedance) ==
    LET half == Abs(impedance - 3 * Scale) \div 2
    IN  ExpNeg((half * half) \div Scale)

Min(a, b) == IF a < b THEN a ELSE b

\* The scorer with the impedance factor added to the best band affinity
\* where the code multiplies.
AffinityBySum(f_quantum, f_acoustic, f_chemical, impedance) ==
    LET best == BestBand(f_acoustic, 1, [best_match |-> "none", best_affinity |-> 0])
        final_affinity == best.best_affinity + ImpedanceFactor(impedance)
    IN  <<Min(Scale, final_affinity), best.best_match>>

\* Returns <<affinity, nearest band>>; f_quantum and f_chemical are not read.
calculate_consciousness_affinity(f_quantum, f_acoustic, f_chemical, impedance) ==
    LET best == BestBand(f_acoustic, 1, [best_match |-> "none", best_affinity |-> 0])
        final_affinity == RDiv(best.best_affinity * ImpedanceFactor(impedance), Scale)
    IN  <<Min(Scale, final_affinity), best.best_match>>

(***************************************************************************)
(* Classification                                                          *)
(***************************************************************************)

\* The rules of classify_element but the last, in order: the atomic numbers
\* a rule matches and the category it returns.
ClassificationRules ==
    << [members |-> {2, 10, 18, 36, 54, 86}, category |-> "Noble Gas"],
       [members |-> {1}, category |-> "Nonmetal"],
       [members |-> {3, 11, 19, 37, 55, 87}, category |-> "Alkali Metal"],
       [members |-> {4, 12, 20, 38, 56, 88}, category |-> "Alkaline Earth"],
       [members |-> {6, 7, 8, 15, 16, 34}, category |-> "Nonmetal"],
       [members |-> {9, 17, 35, 53, 85}, category |-> "Halogen"],
       [members |-> (21..30) \cup (39..48) \cup (72..80),
        category |-> "Transition Metal"],
       [members |-> 57..71, category |-> "Lanthanide"],
       [members |-> 89..103, category |-> "Actinide"] >>

\* The classifier without the rule for hydrogen.
ClassifyWithoutHydrogen(atomic_number, electron_config) ==
    IF atomic_number \in {2, 10, 18, 36, 54, 86} THEN "Noble Gas"
    ELSE IF atomic_number \in {3, 11, 19, 37, 55, 87} THEN "Alkali Metal"
    ELSE IF atomic_number \in {4, 12, 20, 38, 56, 88} THEN "Alkaline Earth"
    ELSE IF atomic_number \in {6, 7, 8, 15, 16, 34} THEN "Nonmetal"
    ELSE IF atomic_number \in {9, 17, 35, 53, 85} THEN "Halogen"
    ELSE IF \/ (21 <= atomic_number /\ atomic_number <= 30)
            \/ (39 <= atomic_number /\ atomic_number <= 48)
            \/ (72 <= atomic_number /\ atomic_number <= 80) THEN "Transition Metal"
    ELSE IF 57 <= atomic_number /\ atomic_number <= 71 THEN "Lanthanide"
    ELSE IF 89 <= atomic_number /\ atomic_number <= 103 THEN "Actinide"
    ELSE "Other Metal"

classify_element(atomic_number, electron_config) ==
    IF atomic_number \in {2, 10, 18, 36, 54, 86} THEN "Noble Gas"
    ELSE IF atomic_number \in {1} THEN "Nonmetal"
    ELSE IF atomic_number \in {3, 11, 19, 37, 55, 87} THEN "Alkali Metal"
    ELSE IF atomic_number \in {4, 12, 20, 38, 56, 88} THEN "Alkaline Earth"
    ELSE IF atomic_number \in {6, 7, 8, 15, 16, 34} THEN "Nonmetal"
    ELSE IF atomic_number \in {9, 17, 35, 53, 85} THEN "Halogen"
    ELSE IF \/ (21 <= atomic_number /\ atomic_number <= 30)
            \/ (39 <= atomic_number /\ atomic_number <= 48)
            \/ (72 <= atomic_number /\ atomic_number <= 80) THEN "Transition Metal"
    ELSE IF 57 <= atomic_number /\ atomic_number <= 71 THEN "Lanthanide"
    ELSE IF 89 <= atomic_number /\ atomic_number <= 103 THEN "Actinide"
    ELSE "Other Metal"

(***************************************************************************)
(* Element analyzer                                                        *)
(***************************************************************************)

\* dict.get(key): an Optional.
Get(dict, key) == IF key \in DOMAIN dict THEN <<dict[key]>> ELSE <<>>

\* dict.get(key, default).
GetOr(dict, key, default) == IF key \in DOMAIN dict THEN dict[key] ELSE default

\* The profile analyze_element builds for a key of the table.
ProfileOf(symbol) ==
    LET data == ELEMENT_DATA[symbol]
        imp == calculate_atomic_impedance(data.ionization_energy,
                   data.electronegativity, data.atomic_radius)
        freq == calculate_frequencies(data.ionization_energy, data.atomic_mass)
        aff == calculate_consciousness_affinity(freq.f_quantum,
                   freq.f_acoustic.v, freq.f_chemical, imp.Z.v)
    IN  [type |-> "ElementProfile",
         symbol |-> symbol,
         name |-> GetOr(ELEMENT_NAMES, symbol, symbol),
         atomic_number |-> data.atomic_number,
         atomic_mass |-> data.atomic_mass,
         ionization_energy |-> data.ionization_energy,
         electronegativity |-> data.electronegativity,
         atomic_radius |-> data.atomic_radius,
         electron_config |-> data.electron_config,
         impedance |-> imp.Z.v,
         impedance_log |-> imp.Z_log.v,
         f_quantum |-> freq.f_quantum,
         f_acoustic |-> freq.f_acoustic.v,
         f_chemical |-> freq.f_chemical,
         consciousness_affinity |-> aff[1],
         nearest_brainwave |-> aff[2],
         planetary_metal |-> Get(PLANETARY_METALS, symbol),
         category |-> classify_element(data.atomic_number, data.electron_config)]

\* The lookup with every spelling of a symbol folded onto the table's own.
AnalyzeIgnoringCase(symbol) ==
    LET key == IF symbol \in {"fe", "FE"} THEN "Fe"
               ELSE IF symbol = "na" THEN "Na" ELSE symbol
    IN  IF key \notin DOMAIN ELEMENT_DATA THEN None ELSE ProfileOf(key)

analyze_element(symbol) ==
    IF symbol \notin DOMAIN ELEMENT_DATA THEN None ELSE ProfileOf(symbol)

(***************************************************************************)
(* Compound analyzer                                                       *)
(***************************************************************************)

\* The interpretation chain with inclusive comparisons.
InterpretationInclusive(R) ==
    IF 5 * R >= 4 * Scale THEN "Excellent match - natural affinity"
    ELSE IF 2 * R >= Scale THEN "Good match - can combine with moderate energy"
    ELSE IF 5 * R >= Scale
         THEN "Weak match - requires significant energy to combine"
    ELSE "Poor match - unlikely to form stable compound"

\* The interpretation chain of calculate_impedance_match for a score R.
Interpretation(R) ==
    IF 5 * R > 4 * Scale THEN "Excellent match - natural affinity"
    ELSE IF 2 * R > Scale THEN "Good match - can combine with moderate energy"
    ELSE IF 5 * R > Scale
         THEN "Weak match - requires significant energy to combine"
    ELSE "Poor match - unlikely to form stable compound"

\* The score penalising a mismatch in one direction only.
MatchScoreOneSided(log1, log2) ==
    LET sigma == Scale \div 2
        delta_log == IF log1 > log2 THEN log1 - log2 ELSE 0
    IN  ExpNeg(RDiv(delta_log * delta_log, RDiv(2 * sigma * sigma, Scale)))

\* exp(-(delta_log ** 2) / (2 * sigma ** 2)), sigma = 0.5.
MatchScore(log1, log2) ==
    LET sigma == Scale \div 2
        delta_log == log1 - log2
    IN  ExpNeg(RDiv(delta_log * delta_log, RDiv(2 * sigma * sigma, Scale)))

\* The match reporting an unknown element under a label of a real match.
MatchOfProfilesPoorOnUnknown(p1, p2) ==
    IF p1 = None \/ p2 = None
    THEN [type |-> "tuple", R |-> 0,
          interpretation |-> "Poor match - unlikely to form stable compound"]
    ELSE LET R == MatchScore(p1.impedance_log, p2.impedance_log)
         IN  [type |-> "tuple", R |-> R, interpretation |-> Interpretation(R)]

\* The match reading the second profile's impedance instead of its log.
MatchOfProfilesWrongField(p1, p2) ==
    IF p1 = None \/ p2 = None
    THEN [type |-> "tuple", R |-> 0, interpretation |-> "Unknown element"]
    ELSE LET R == MatchScore(p1.impedance_log, p2.impedance)
         IN  [type |-> "tuple", R |-> R, interpretation |-> Interpretation(R)]

\* The body of calculate_impedance_match once both profiles are in hand.
MatchOfProfiles(p1, p2) ==
    IF p1 = None \/ p2 = None
    THEN [type |-> "tuple", R |-> 0, interpretation |-> "Unknown element"]
    ELSE LET R == MatchScore(p1.impedance_log, p2.impedance_log)
         IN  [type |-> "tuple", R |-> R, interpretation |-> Interpretation(R)]

\* p1 and p2 are computed once each and then used (the CHOOSE is from a
\* one-element set: it binds them to their values).
calculate_impedance_match(element1, element2) ==
    CHOOSE r \in {MatchOfProfiles(p1, p2) : p1 \in {analyze_element(element1)},
                                           p2 \in {analyze_element(element2)}} : TRUE

\* The profiles of the distinct symbols of the list (a repeated symbol
\* analysed once, at its first position), the None entries dropped.
ProfilesDistinct(elements) ==
    LET first == SelectSeq([i \in 1..Len(elements) |-> <<i, elements[i]>>],
                           LAMBDA e : \A j \in 1..(e[1] - 1) : elements[j] # e[2])
    IN  SelectSeq([i \in 1..Len(first) |-> analyze_element(first[i][2])],
                  LAMBDA p : p # None)

\* [analyze_element(e) for e in elements], the None entries dropped.
Profiles(elements) ==
    SelectSeq([i \in 1..Len(elements) |-> analyze_element(elements[i])],
              LAMBDA p : p # None)

\* The inner loop: the scores of p1 against each profile of rest, in order.
RECURSIVE ScoresAgainst(_, _)
ScoresAgainst(p1, rest) ==
    IF rest = <<>> THEN <<>>
    ELSE <<calculate_impedance_match(p1.symbol, Head(rest).symbol).R>>
         \o ScoresAgainst(p1, Tail(rest))

\* The outer loop with the inner one starting at profiles[i:], so that every
\* profile is also matched with itself.
RECURSIVE MatchScoresWithSelf(_)
MatchScoresWithSelf(profiles) ==
    IF profiles = <<>> THEN <<>>
    ELSE ScoresAgainst(Head(profiles), profiles) \o MatchScoresWithSelf(Tail(profiles))

\* The outer loop: for i, p1 in enumerate(profiles): for p2 in profiles[i+1:].
RECURSIVE MatchScores(_)
MatchScores(profiles) ==
    IF profiles = <<>> THEN <<>>
    ELSE ScoresAgainst(Head(profiles), Tail(profiles)) \o MatchScores(Tail(profiles))

\* The stability rule with the boundaries on the other side.
StabilityPredictionInclusive(avg_match) ==
    IF 2 * avg_match >= Scale THEN "Stable"
    ELSE IF 5 * avg_match <= Scale THEN "Unstable"
    ELSE "Metastable"

StabilityPrediction(avg_match) ==
    IF 2 * avg_match > Scale THEN "Stable"
    ELSE IF 5 * avg_match < Scale THEN "Unstable"
    ELSE "Metastable"

\* The field f of each record of the sequence s.
Field(s, f) == [i \in 1..Len(s) |-> s[i][f]]

\* The result predict_compound_frequency builds from two or more profiles.
CompoundResult(profiles) ==
    LET total_mass == SeqSum(Field(profiles, "atomic_mass"))
        match_scores == MatchScores(profiles)
        avg_match == IF match_scores # <<>> THEN Mean(match_scores) ELSE 0
    IN  [type |-> "dict",
         elements |-> Field(profiles, "symbol"),
         total_mass |-> total_mass,
         f_acoustic_compound |-> AcousticFrequency(total_mass),
         f_chemical_avg |-> Mean(Field(profiles, "f_chemical")),
         compound_impedance |->
             ExpPos(Mean(Field(profiles, "impedance_log"))),
         average_impedance_match |-> avg_match,
         stability_prediction |-> StabilityPrediction(avg_match)]

\* The length test letting a single profile through.
CompoundOfAtLeastOne(profiles) ==
    IF Len(profiles) < 1
    THEN [type |-> "dict", error |-> "Need at least 2 valid elements"]
    ELSE CompoundResult(profiles)

\* The body of predict_compound_frequency once the profiles are in hand.
CompoundOfProfiles(profiles) ==
    IF Len(profiles) < 2
    THEN [type |-> "dict", error |-> "Need at least 2 valid elements"]
    ELSE CompoundResult(profiles)

\* profiles is computed once and then used.
predict_compound_frequency(elements) ==
    CHOOSE r \in {CompoundOfProfiles(profiles) : profiles \in {Profiles(elements)}} :
        TRUE

(***************************************************************************)
(* The calls a client makes                                                *)
(***************************************************************************)

\* Symbols that are not keys of the table, wrongly-cased ones among them.
UnknownSymbols == {"Xx", "Yy", "fe", "FE", "na", ""}

SymbolInputs == DOMAIN ELEMENT_DATA_0 \cup UnknownSymbols

\* The symbols the lists handed to predict_compound_frequency are made of.
CompoundSymbols == {"Na", "Cl", "K", "Be", "C", "Fe", "Xx", "Yy"}

CompoundInputs == UNION {[1..n -> CompoundSymbols] : n \in 0..MaxLen}

\* Arguments of the calculators, valid and invalid: 1/1000 eV, Optional
\* 1/100, pm, 1/1000 amu.
IonizationInputs == {-13598, -1, 0, 5139, 13598, 24587}
ElectronegativityInputs == {<<>>, <<0>>, <<93>>, <<220>>}
RadiusInputs == {-53, -1, 0, 31, 53, 190}
MassInputs == {-1008, 0, 1008, 55850, 238030}

\* Arguments of the affinity scorer: acoustic frequencies in GHz over the
\* decade the table's masses give and the decades around it, quantum
\* frequencies in GHz, impedances in 1/1000.
AcousticInputs ==
    {20 * k : k \in 1..50} \cup {1000 + 250 * k : k \in 0..36}
        \cup {20000 * k : k \in 1..5}
QuantumInputs == {0, 3288000}
ImpedanceInputs == {589, 3000, 7931}

\* No call has been kept yet.
NoCall == [op |-> "none", args |-> <<>>, result |-> None]

Init ==
    /\ ELEMENT_DATA = ELEMENT_DATA_0
    /\ PLANETARY_METALS = PLANETARY_METALS_0
    /\ ELEMENT_NAMES = ELEMENT_NAMES_0
    /\ pc = "menu"
    /\ op = "none"
    /\ args = <<>>
    /\ result = None
    /\ earlier = NoCall

\* analyze_element taking the entry out of the table (ELEMENT_DATA.pop) where
\* the code reads it.
AnalyzeConsumingOver(symbols) ==
    /\ pc = "menu"
    /\ \E symbol \in symbols :
        /\ args' = <<symbol>>
        /\ result' = analyze_element(symbol)
        /\ ELEMENT_DATA' = [k \in DOMAIN ELEMENT_DATA \ {symbol} |-> ELEMENT_DATA[k]]
    /\ op' = "analyze_element"
    /\ pc' = "done"
    /\ UNCHANGED <<PLANETARY_METALS, ELEMENT_NAMES, earlier>>

\* analyze_element called with one of the given symbols.
AnalyzeOver(symbols) ==
    /\ pc = "menu"
    /\ \E symbol \in symbols :
        /\ args' = <<symbol>>
        /\ result' = analyze_element(symbol)
    /\ op' = "analyze_element"
    /\ pc' = "done"
    /\ UNCHANGED <<tables, earlier>>

Analyze == AnalyzeOver(SymbolInputs)

\* calculate_impedance_match called with two of the given symbols.
ImpedanceMatchOver(symbols) ==
    /\ pc = "menu"
    /\ \E element1 \in symbols, element2 \in symbols :
        /\ args' = <<element1, element2>>
        /\ result' = calculate_impedance_match(element1, element2)
    /\ op' = "calculate_impedance_match"
    /\ pc' = "done"
    /\ UNCHANGED <<tables, earlier>>

ImpedanceMatch == ImpedanceMatchOver(SymbolInputs)

\* predict_compound_frequency called with one of the given lists.
PredictCompoundOver(lists) ==
    /\ pc = "menu"
    /\ \E elements \in lists :
        /\ args' = <<elements>>
        /\ result' = predict_compound_frequency(elements)
    /\ op' = "predict_compound_frequency"
    /\ pc' = "done"
    /\ UNCHANGED <<tables, earlier>>

PredictCompound == PredictCompoundOver(CompoundInputs)

CalculateImpedance ==
    /\ pc = "menu"
    /\ \E ionization_ev \in IonizationInputs,
          electronegativity \in ElectronegativityInputs,
          radius_pm \in RadiusInputs :
        /\ args' = <<ionization_ev, electronegativity, radius_pm>>
        /\ result' = calculate_atomic_impedance(ionization_ev, electronegativity,
                                                radius_pm)
    /\ op' = "calculate_atomic_impedance"
    /\ pc' = "done"
    /\ UNCHANGED <<tables, earlier>>

CalculateFrequencies ==
    /\ pc = "menu"
    /\ \E ionization_ev \in IonizationInputs, atomic_mass_amu \in MassInputs :
        /\ args' = <<ionization_ev, atomic_mass_amu>>
        /\ result' = calculate_frequencies(ionization_ev, atomic_mass_amu)
    /\ op' = "calculate_frequencies"
    /\ pc' = "done"
    /\ UNCHANGED <<tables, earlier>>

CalculateAffinity ==
    /\ pc = "menu"
    /\ \E f_quantum \in QuantumInputs, f_acoustic \in AcousticInputs,
          impedance \in ImpedanceInputs :
        /\ args' = <<f_quantum, f_acoustic, f_quantum * 10, impedance>>
        /\ result' =
              LET scored == calculate_consciousness_affinity(f_quantum, f_acoustic,
                                f_quantum * 10, impedance)
              IN  [type |-> "tuple", affinity |-> scored[1],
                   best_match |-> scored[2]]
    /\ op' = "calculate_consciousness_affinity"
    /\ pc' = "done"
    /\ UNCHANGED <<tables, earlier>>

Classify ==
    /\ pc = "menu"
    /\ \E atomic_number \in 0..MaxAtomicNumber, electron_config \in {"", "1s1"} :
        /\ args' = <<atomic_number, electron_config>>
        /\ result' = [type |-> "str",
                      value |-> classify_element(atomic_number, electron_config)]
    /\ op' = "classify_element"
    /\ pc' = "done"
    /\ UNCHANGED <<tables, earlier>>

\* The interpretation step of calculate_impedance_match on a score R.
Interpret ==
    /\ pc = "menu"
    /\ \E R \in 0..Scale :
        /\ args' = <<R>>
        /\ result' = [type |-> "tuple", R |-> R,
                      interpretation |-> Interpretation(R)]
    /\ op' = "Interpretation"
    /\ pc' = "done"
    /\ UNCHANGED <<tables, earlier>>

\* The stability step of predict_compound_frequency on an average avg_match.
Stability ==
    /\ pc = "menu"
    /\ \E avg_match \in 0..Scale :
        /\ args' = <<avg_match>>
        /\ result' = [type |-> "str", value |-> StabilityPrediction(avg_match)]
    /\ op' = "StabilityPrediction"
    /\ pc' = "done"
    /\ UNCHANGED <<tables, earlier>>

\* The caller takes the result; the next call can be made.
Return ==
    /\ pc = "done"
    /\ pc' = "menu"
    /\ op' = "none"
    /\ args' = <<>>
    /\ result' = None
    /\ UNCHANGED <<tables, earlier>>

Next ==
    \/ Analyze
    \/ ImpedanceMatch
    \/ PredictCompound
    \/ CalculateImpedance
    \/ CalculateFrequencies
    \/ CalculateAffinity
    \/ Classify
    \/ Interpret
    \/ Stability
    \/ Return

Spec == Init /\ [][Next]_vars

(***************************************************************************)
(* Repeated calls: a caller keeps the result of a call while further calls *)
(* are made, by itself or by other callers, and the call is made again.    *)
(***************************************************************************)

\* Symbols and lists of the repeated calls: known, repeated and unknown.
RepeatSymbols == {"Na", "Cl", "Xx"}
RepeatInputs == UNION {[1..n -> RepeatSymbols] : n \in 0..MaxLen}

\* The caller keeps the call and its result; the next call can be made.
Remember ==
    /\ pc = "done"
    /\ earlier' = [op |-> op, args |-> args, result |-> result]
    /\ pc' = "menu"
    /\ op' = "none"
    /\ args' = <<>>
    /\ result' = None
    /\ UNCHANGED tables

NextRepeat ==
    \/ AnalyzeOver(RepeatSymbols)
    \/ ImpedanceMatchOver(RepeatSymbols)
    \/ PredictCompoundOver(RepeatInputs)
    \/ Remember
    \/ Return

SpecRepeat == Init /\ [][NextRepeat]_vars

(***************************************************************************)
(* Properties                                                              *)
(***************************************************************************)

\* A call of f has returned.
Returned(f) == pc = "done" /\ op = f

Known(symbol) == symbol \in DOMAIN ELEMENT_DATA

\* The dict predict_compound_frequency returns when too few symbols resolve.
InsufficientElements == [type |-> "dict", error |-> "Need at least 2 valid elements"]

\* The pair calculate_impedance_match returns for an unknown element.
UnknownElement == [type |-> "tuple", R |-> 0, interpretation |-> "Unknown element"]

\* How many entries of a symbol list are keys of the table.
Resolved(elements) == Cardinality({i \in 1..Len(elements) : Known(elements[i])})

\* C1: analyze_element(symbol) returns None exactly when symbol is not a key
\* of the element table, and otherwise a profile whose symbol field is the
\* argument; the lookup is by exact string, so a differently-cased spelling
\* of a known symbol ("fe", "FE", "na") gets None.
C1_AnalyzeNotFoundIffUnknown ==
    Returned("analyze_element") =>
        /\ (result = None) <=> ~Known(args[1])
        /\ Known(args[1]) =>
              /\ result.type = "ElementProfile"
              /\ result.symbol = args[1]
        /\ args[1] \in {"fe", "FE", "na"} => result = None

C1_Witness ==
    /\ Returned("analyze_element")
    /\ args = <<"fe">>
    /\ result = None
    /\ Known("Fe")

\* C2: predict_compound_frequency(elements) returns the error dict if and
\* only if fewer than 2 entries of the list resolve in the table; unknown
\* entries are dropped without a report, so a list with 2 resolving entries
\* succeeds whatever else it holds: <<Fe>> and <<Xx, Yy>> fail,
\* <<Na, Xx, Cl>> succeeds.
C2_InsufficientIffFewerThanTwo ==
    Returned("predict_compound_frequency") =>
        /\ (result = InsufficientElements) <=> Resolved(args[1]) < 2
        /\ Resolved(args[1]) >= 2 =>
              /\ "error" \notin DOMAIN result
              /\ \A i \in 1..Len(result.elements) : Known(result.elements[i])
        /\ args[1] \in {<<"Fe">>, <<"Xx", "Yy">>} => result = InsufficientElements
        /\ args[1] = <<"Na", "Xx", "Cl">> => result.elements = <<"Na", "Cl">>

C2_Witness ==
    /\ Returned("predict_compound_frequency")
    /\ args = << <<"Na", "Xx", "Cl">> >>
    /\ result.type = "dict"
    /\ "error" \notin DOMAIN result

C4_MatchSymmetric ==
    (Returned("calculate_impedance_match") /\ Known(args[1]) /\ Known(args[2])) =>
        LET swapped == calculate_impedance_match(args[2], args[1])
        IN  /\ result.R = swapped.R
            /\ result.interpretation = swapped.interpretation

C4_Witness ==
    /\ Returned("calculate_impedance_match")
    /\ args = <<"Na", "Cl">>
    /\ result.R > 0
    /\ result.R < Scale

\* C5: for every symbol a of the table, calculate_impedance_match(a, a)
\* returns R = 1.0 exactly (the log-impedance difference is 0) and so the
\* label of the R > 0.8 branch, "Excellent match - natural affinity".
C5_SelfMatchIsOne ==
    (Returned("calculate_impedance_match") /\ Known(args[1]) /\ args[1] = args[2]) =>
        /\ result.R = Scale
        /\ result.interpretation = "Excellent match - natural affinity"

C5_Witness ==
    /\ Returned("calculate_impedance_match")
    /\ args = <<"He", "He">>
    /\ result.R = Scale

\* The four labels by the names the specification gives them.
ShortLabel(R) ==
    IF 10 * R > 8 * Scale THEN "Excellent match"
    ELSE IF 10 * R > 5 * Scale THEN "Good match"
    ELSE IF 10 * R > 2 * Scale THEN "Weak match"
    ELSE "Poor match"

\* The four labels as the program spells them.
FullLabel(R) ==
    IF 10 * R > 8 * Scale THEN "Excellent match - natural affinity"
    ELSE IF 10 * R > 5 * Scale THEN "Good match - can combine with moderate energy"
    ELSE IF 10 * R > 2 * Scale
         THEN "Weak match - requires significant energy to combine"
    ELSE "Poor match - unlikely to form stable compound"

\* A score has been interpreted: by a match of two known symbols, or by the
\* interpretation step on its own.
Interpreted ==
    \/ Returned("calculate_impedance_match") /\ Known(args[1]) /\ Known(args[2])
    \/ Returned("Interpretation")

\* C6, as claimed: R is in [0, 1] and the label is the first true of R > 0.8
\* "Excellent match", R > 0.5 "Good match", R > 0.2 "Weak match", else
\* "Poor match", the returned strings being those four names.
C6_LabelIsOneOfFourNames ==
    Interpreted =>
        /\ 0 <= result.R /\ result.R <= Scale
        /\ result.interpretation = ShortLabel(result.R)

\* C6, amended: R is in [0, 1] and the label is chosen by the first true
\* test in the order R > 0.8, R > 0.5, R > 0.2, else; the comparisons are
\* strict, so R exactly 0.8, 0.5 or 0.2 gets the next lower label; the
\* returned strings are "Excellent match - natural affinity", "Good match -
\* can combine with moderate energy", "Weak match - requires significant
\* energy to combine" and "Poor match - unlikely to form stable compound".
C6_LabelByFirstStrictTest ==
    Interpreted =>
        /\ 0 <= result.R /\ result.R <= Scale
        /\ result.interpretation = FullLabel(result.R)
        /\ 10 * result.R = 8 * Scale =>
              result.interpretation = "Good match - can combine with moderate energy"
        /\ 10 * result.R = 5 * Scale =>
              result.interpretation =
                  "Weak match - requires significant energy to combine"
        /\ 10 * result.R = 2 * Scale =>
              result.interpretation = "Poor match - unlikely to form stable compound"

C6_Witness ==
    /\ Returned("Interpretation")
    /\ 10 * result.R = 8 * Scale
    /\ result.interpretation = "Good match - can combine with moderate energy"

\* A stability label has been given: by a successful compound prediction, or
\* by the stability step on its own.
StabilityGiven ==
    \/ Returned("predict_compound_frequency") /\ "error" \notin DOMAIN result
    \/ Returned("StabilityPrediction")

GivenAverage ==
    IF op = "StabilityPrediction" THEN args[1] ELSE result.average_impedance_match

GivenStability ==
    IF op = "StabilityPrediction" THEN result.value ELSE result.stability_prediction

\* C7: the stability label is a function of average_impedance_match alone:
\* "Stable" iff it is > 0.5, "Unstable" iff it is < 0.2, "Metastable" iff it
\* lies in [0.2, 0.5], both ends included; exactly one of the three holds.
C7_StabilityByAverage ==
    StabilityGiven =>
        /\ GivenStability \in {"Stable", "Unstable", "Metastable"}
        /\ GivenStability = "Stable" <=> 10 * GivenAverage > 5 * Scale
        /\ GivenStability = "Unstable" <=> 10 * GivenAverage < 2 * Scale
        /\ GivenStability = "Metastable" <=>
              (2 * Scale <= 10 * GivenAverage /\ 10 * GivenAverage <= 5 * Scale)

C7_Witness ==
    /\ Returned("predict_compound_frequency")
    /\ "error" \notin DOMAIN result
    /\ result.stability_prediction = "Metastable"
    /\ Len(result.elements) = 3

\* The pairs of positions i < j of a list of k entries.
PositionPairs(k) == {pr \in (1..k) \X (1..k) : pr[1] < pr[2]}

\* The sum of the match scores of the entries at the given position pairs.
RECURSIVE PairScoreSum(_, _)
PairScoreSum(symbols, pairs) ==
    IF pairs = {} THEN 0
    ELSE LET pr == CHOOSE q \in pairs : TRUE
         IN  calculate_impedance_match(symbols[pr[1]], symbols[pr[2]]).R
             + PairScoreSum(symbols, pairs \ {pr})

\* The sum of the masses of a list of known symbols.
RECURSIVE MassSum(_)
MassSum(symbols) ==
    IF symbols = <<>> THEN 0
    ELSE ELEMENT_DATA[Head(symbols)].atomic_mass + MassSum(Tail(symbols))

\* C8: in a successful prediction over k resolved entries,
\* average_impedance_match is the arithmetic mean of the match score over
\* the k(k-1)/2 pairs of positions i < j of the resolved entries (each pair
\* once, no position paired with itself); with 2 resolved entries a, b it is
\* the score of (a, b); total_mass is the sum of the resolved masses, 58.44
\* for Na and Cl.
C8_AverageOverUnorderedPairs ==
    (Returned("predict_compound_frequency") /\ "error" \notin DOMAIN result) =>
        LET resolved == SelectSeq(args[1], Known)
            k == Len(resolved)
        IN  /\ Cardinality(PositionPairs(k)) = (k * (k - 1)) \div 2
            /\ result.average_impedance_match =
                  RDiv(PairScoreSum(resolved, PositionPairs(k)),
                       Cardinality(PositionPairs(k)))
            /\ k = 2 => result.average_impedance_match =
                            calculate_impedance_match(resolved[1], resolved[2]).R
            /\ result.total_mass = MassSum(resolved)
            /\ resolved = <<"Na", "Cl">> => result.total_mass = 58440

C8_Witness ==
    /\ Returned("predict_compound_frequency")
    /\ args = << <<"Na", "Cl", "K">> >>
    /\ result.average_impedance_match > 0
    /\ result.total_mass = 22990 + 35450 + 39100

\* The categories classify_element can return, and the atomic numbers of the
\* element table.
Categories ==
    {"Noble Gas", "Alkali Metal", "Alkaline Earth", "Halogen", "Nonmetal",
     "Transition Metal", "Lanthanide", "Actinide", "Other Metal"}

TableNumbers == {ELEMENT_DATA[s].atomic_number : s \in DOMAIN ELEMENT_DATA}

\* The rules, by position, whose test an atomic number passes.
MatchingRules(n) == {i \in 1..Len(ClassificationRules) : n \in ClassificationRules[i].members}

\* C9: classify_element returns, for every atomic number, exactly one
\* category of the fixed set, that of the first rule matching in the fixed
\* order ("Other Metal" when none does), whatever the electron
\* configuration; 2 gives "Noble Gas", 26 "Transition Metal", 1 "Nonmetal";
\* no atomic number of the table matches two rules of different outcomes.
C9_ClassificationFirstRuleWins ==
    Returned("classify_element") =>
        LET n == args[1]
            matching == MatchingRules(n)
        IN  /\ result.value \in Categories
            /\ matching = {} => result.value = "Other Metal"
            /\ matching # {} =>
                  result.value =
                      ClassificationRules[CHOOSE i \in matching :
                                              \A j \in matching : i <= j].category
            /\ result.value = classify_element(n, "[Ar]3d6 4s2")
            /\ n = 2 => result.value = "Noble Gas"
            /\ n = 26 => result.value = "Transition Metal"
            /\ n = 1 => result.value = "Nonmetal"
            /\ n \in TableNumbers =>
                  Cardinality({ClassificationRules[i].category : i \in matching}) <= 1

C9_Witness ==
    /\ Returned("classify_element")
    /\ args[1] = 1
    /\ result.value = "Nonmetal"
    /\ 1 \in TableNumbers

\* A calculator was called with a radius <= 0 or an ionization energy < 0
\* (calculate_frequencies takes no radius).
BadCalculatorInput ==
    \/ Returned("calculate_atomic_impedance") /\ (args[3] <= 0 \/ args[1] < 0)
    \/ Returned("calculate_frequencies") /\ args[1] < 0

\* C10: the impedance and frequency calculators reject radius <= 0 and
\* ionization_energy < 0: for such inputs the outcome is an explicit
\* precondition-violation error, not a numeric result (finite, infinite or
\* nan) and not a raised exception.
C10_CalculatorsRejectBadInput ==
    BadCalculatorInput => result.outcome = "PreconditionViolation"

\* The affinities of the six bands for an acoustic frequency.
BandAffinities(f_acoustic) ==
    {BandAffinity(f_acoustic, consciousness_freqs[i][2]) :
        i \in 1..Len(consciousness_freqs)}

\* The largest member of a non-empty set of numbers.
MaxOf(S) == CHOOSE m \in S : \A x \in S : x <= m

\* C11: for every symbol of the element table, analyze_element returns a
\* profile whose consciousness_affinity lies in [0, 1], whose impedance is
\* strictly positive and whose impedance_log is finite; the affinity is the
\* largest band affinity times the impedance factor, clamped above at 1.
C11_ProfileNumbersInRange ==
    (Returned("analyze_element") /\ Known(args[1])) =>
        LET data == ELEMENT_DATA[args[1]]
            imp == calculate_atomic_impedance(data.ionization_energy,
                       data.electronegativity, data.atomic_radius)
            product == RDiv(MaxOf(BandAffinities(result.f_acoustic))
                                * ImpedanceFactor(result.impedance), Scale)
        IN  /\ result.consciousness_affinity >= 0
            /\ result.consciousness_affinity <= Scale
            /\ imp.outcome = "return"
            /\ imp.Z.k = "fin"
            /\ imp.Z_log.k = "fin"
            /\ result.impedance = imp.Z.v
            /\ result.impedance > 0
            /\ result.impedance_log = imp.Z_log.v
            /\ result.consciousness_affinity = Min(Scale, product)

C11_Witness ==
    /\ Returned("analyze_element")
    /\ args = <<"Fe">>
    /\ result.consciousness_affinity > 0
    /\ result.consciousness_affinity < Scale
    /\ result.impedance > 0

\* The call that just returned repeats the call the caller kept.
Repeated == pc = "done" /\ earlier.op = op /\ earlier.args = args

BandNames == {consciousness_freqs[i][1] : i \in 1..Len(consciousness_freqs)}

\* The positions of the bands whose affinity for f_acoustic is the largest.
BestPositions(f_acoustic) ==
    {i \in 1..Len(consciousness_freqs) :
        BandAffinity(f_acoustic, consciousness_freqs[i][2])
            = MaxOf(BandAffinities(f_acoustic))}

\* The first band, in the order of iteration, with the largest affinity.
FirstBest(f_acoustic) ==
    consciousness_freqs[CHOOSE i \in BestPositions(f_acoustic) :
                            \A j \in BestPositions(f_acoustic) : i <= j][1]

\* What C13 says of a band label returned for an acoustic frequency.
BestMatchIsFirstMaximum(best_match, f_acoustic) ==
    /\ best_match = FirstBest(f_acoustic)
    /\ best_match \in BandNames
    /\ best_match # "none"
    /\ \A a \in BandAffinities(f_acoustic) : a > 0

\* C13: the affinity scorer returns as best_match the band with the largest
\* band affinity in the order delta, theta, alpha, beta, gamma, high_gamma,
\* keeping the first band met on a tie; every band affinity is strictly
\* positive, so the label is one of the six band names and never 'none'.
\* This holds of the scorer called on its own and of the label in a profile.
C13_BestMatchFirstOnTies ==
    /\ Returned("calculate_consciousness_affinity") =>
           BestMatchIsFirstMaximum(result.best_match, args[2])
    /\ (Returned("analyze_element") /\ Known(args[1])) =>
           BestMatchIsFirstMaximum(result.nearest_brainwave, result.f_acoustic)

C13_Witness ==
    /\ Returned("calculate_consciousness_affinity")
    /\ Cardinality(BestPositions(args[2])) >= 2
    /\ result.best_match = FirstBest(args[2])
    /\ result.best_match \in BandNames

\* C14: in a successful predict_compound_frequency result the 'elements'
\* list is the input with the unknown symbols removed, in input order and
\* with repeated symbols kept, so a repeated known symbol counts as several
\* resolved entries (<<Na, Na>> succeeds, pairs Na with itself and gives
\* average_impedance_match 1.0 and 'Stable'); the list of pair scores is
\* never empty on success, so the zero fallback of the average is not
\* taken, and no calculate_impedance_match call made for a pair takes the
\* unknown-element branch.
C14_ElementsAreResolvedInputs ==
    Returned("predict_compound_frequency") =>
        \A elements \in {args[1]} :
        \A resolved \in {SelectSeq(elements, Known)} :
        \A profiles \in {Profiles(elements)} :
        \A match_scores \in {MatchScores(profiles)} :
            /\ "error" \notin DOMAIN result =>
                  /\ result.elements = resolved
                  /\ Len(resolved) >= 2
                  /\ Field(profiles, "symbol") = resolved
                  /\ match_scores # <<>>
                  /\ Len(match_scores) = Cardinality(PositionPairs(Len(resolved)))
                  /\ result.average_impedance_match = Mean(match_scores)
                  /\ \A pr \in PositionPairs(Len(profiles)) :
                        calculate_impedance_match(profiles[pr[1]].symbol,
                                                  profiles[pr[2]].symbol)
                            # UnknownElement
            /\ elements = <<"Na", "Na">> =>
                  /\ "error" \notin DOMAIN result
                  /\ result.elements = <<"Na", "Na">>
                  /\ match_scores = <<calculate_impedance_match("Na", "Na").R>>
                  /\ result.average_impedance_match = Scale
                  /\ result.stability_prediction = "Stable"

C14_Witness ==
    /\ Returned("predict_compound_frequency")
    /\ args = << <<"Na", "Xx", "Na">> >>
    /\ result.elements = <<"Na", "Na">>
    /\ result.average_impedance_match = Scale
    /\ result.stability_prediction = "Stable"
====
